---- MODULE Spec2Model ----
(***************************************************************************)
(* A model of node-gm: the SM3 hash engine (sm_sm3.js, src/unnamed/        *)
(* part_000) and the SM2 key pair / signature code (src/sm_sm2.js).        *)
(*                                                                         *)
(* 32-bit words.  A JavaScript uint32 does not fit TLC's integers, so a    *)
(* word is the pair <<hi, lo>> of its 16-bit halves; every operator below  *)
(* computes exactly the uint32 result of the JavaScript expression.        *)
(***************************************************************************)
EXTENDS Integers, Sequences, FiniteSets, TLC

----------------------------------------------------------------------------
(* Bounds of the model (not program constants).                            *)

\* total number of bytes written to one engine between two resets
MaxTotal == 130

\* the private keys d for which SM2KeyPair(null, d) is constructed
MaxPri == 434

\* the private keys given as hex strings to the key pairs that sign
MaxSigPri == 2

\* the values the DRBG draws in genKeyPair
MaxGenDrbg == 3

\* the values the DRBG draws in signDigest
MaxDrbg == 25

\* the values of the digests given to signDigest and verifyDigest
MaxDigest == 12

\* the values of r and of s given to verifyDigest
MaxR == 5
MaxS == 12

----------------------------------------------------------------------------
(* JavaScript 32-bit operators                                             *)

\* 2^16
H16 == 256 * 256

RECURSIVE AndBits(_, _, _)
AndBits(a, b, n) ==
    IF n = 0 THEN 0
    ELSE ((a % 2) * (b % 2)) + 2 * AndBits(a \div 2, b \div 2, n - 1)

\* AndTab[a + 1][b + 1] = a & b for 4-bit a, b
AndTab == [a \in 1..16 |-> [b \in 1..16 |-> AndBits(a - 1, b - 1, 4)]]

And8(a, b) == AndTab[(a \div 16) + 1][(b \div 16) + 1] * 16 + AndTab[(a % 16) + 1][(b % 16) + 1]
And16(a, b) == And8(a \div 256, b \div 256) * 256 + And8(a % 256, b % 256)
\* a ^ b = a + b - 2 (a & b)
Xor16(a, b) == a + b - 2 * And16(a, b)

\* x ^ y
XOR(x, y) == <<Xor16(x[1], y[1]), Xor16(x[2], y[2])>>
\* x & y
AND(x, y) == <<And16(x[1], y[1]), And16(x[2], y[2])>>
\* x | y,  a | b = a + b - (a & b)
OR(x, y)  == <<x[1] + y[1] - And16(x[1], y[1]), x[2] + y[2] - And16(x[2], y[2])>>
\* ~x
NOT(x) == <<H16 - 1 - x[1], H16 - 1 - x[2]>>

\* (x + y) & 0xffffffff >>> 0
ADD(x, y) ==
    <<(x[1] + y[1] + ((x[2] + y[2]) \div H16)) % H16, (x[2] + y[2]) % H16>>

\* rotate the halves <<h, l>> left by n, 0 <= n < 16
Rot16(h, l, n) ==
    <<((h * (2 ^ n)) % H16) + (l \div (2 ^ (16 - n))),
      ((l * (2 ^ n)) % H16) + (h \div (2 ^ (16 - n)))>>

\* _rotl: n %= 32; ((x << n) | (x >>> (32 - n))) >>> 0
rotl(x, n) ==
    IF n % 32 < 16 THEN Rot16(x[1], x[2], n % 32) ELSE Rot16(x[2], x[1], (n % 32) - 16)

\* the uint32 whose big-endian bytes are b0 b1 b2 b3
WordOfBytes(b0, b1, b2, b3) == <<b0 * 256 + b1, b2 * 256 + b3>>

----------------------------------------------------------------------------
(* SM3._compress                                                           *)

\* _t(j)
Tj(j) == IF j < 16 THEN <<31180, 17689>>      \* 0x79cc4519
                   ELSE <<31367, 40330>>      \* 0x7a879d8a

\* _ff(j, x, y, z)
FF(j, x, y, z) ==
    IF j < 16 THEN XOR(XOR(x, y), z)
    ELSE OR(OR(AND(x, y), AND(x, z)), AND(y, z))

\* _gg(j, x, y, z)
GG(j, x, y, z) ==
    IF j < 16 THEN XOR(XOR(x, y), z)
    ELSE OR(AND(x, y), AND(NOT(x), z))

\* a byte of block b (0-based index); reading past the end of a JavaScript
\* array gives undefined, which the shifts and ors of _expand turn into 0
ByteAt(b, i) == IF i + 1 <= Len(b) THEN b[i + 1] ELSE 0

\* The loops of _expand and _compress run over index ranges [lo, hi); a range
\* is split in halves, which runs the iterations in the source's order.  An
\* intermediate value used more than once is handed on as a parameter.

\* _expand, first loop: w[0..15]
LoadWord(b, i) == WordOfBytes(ByteAt(b, 4 * i), ByteAt(b, 4 * i + 1),
                              ByteAt(b, 4 * i + 2), ByteAt(b, 4 * i + 3))

RECURSIVE ExpandLoad(_, _, _)
ExpandLoad(b, lo, hi) ==
    IF hi - lo = 1 THEN <<LoadWord(b, lo)>>
    ELSE ExpandLoad(b, lo, (lo + hi) \div 2) \o ExpandLoad(b, (lo + hi) \div 2, hi)

\* P1(x) = x ^ _rotl(x, 15) ^ _rotl(x, 23)
P1(x) == XOR(XOR(x, rotl(x, 15)), rotl(x, 23))

\* _expand, second loop: w[16..67]   (w[j] is w[j + 1] here)
ExpandStep(w, j) ==
    Append(w, XOR(XOR(P1(XOR(XOR(w[j - 16 + 1], w[j - 9 + 1]), rotl(w[j - 3 + 1], 15))),
                      rotl(w[j - 13 + 1], 7)),
                  w[j - 6 + 1]))

RECURSIVE ExpandW(_, _, _)
\* the second half of a range, once the first half has produced w1
ExpandWThen(w1, mid, hi) == IF Len(w1) > 0 THEN ExpandW(w1, mid, hi) ELSE w1

ExpandW(w, lo, hi) ==
    IF hi - lo = 1 THEN ExpandStep(w, lo)
    ELSE ExpandWThen(ExpandW(w, lo, (lo + hi) \div 2), (lo + hi) \div 2, hi)

\* _expand, third loop: w[68..131]
RECURSIVE ExpandW1(_, _, _)
ExpandW1(w, lo, hi) ==
    IF hi - lo = 1 THEN <<XOR(w[lo + 1], w[lo + 4 + 1])>>
    ELSE ExpandW1(w, lo, (lo + hi) \div 2) \o ExpandW1(w, (lo + hi) \div 2, hi)

ExpandTail(w) == w \o ExpandW1(w, 0, 64)

\* _expand(b): w[0..131]
expand(b) == ExpandTail(ExpandW(ExpandLoad(b, 0, 16), 16, 68))

\* P0(x) = x ^ _rotl(x, 9) ^ _rotl(x, 17)
P0(x) == XOR(XOR(x, rotl(x, 9)), rotl(x, 17))

\* lines 188-195: the registers after one step, given tt1 and tt2
RoundRegs(r, tt1, tt2) ==
    <<tt1, r[1], rotl(r[2], 9), r[3], P0(tt2), r[5], rotl(r[6], 19), r[7]>>

\* lines 178-186, given ss1 and _rotl(r[0], 12)
RoundTT(r, w, j, a12, ss1) ==
    RoundRegs(r,
        ADD(ADD(ADD(FF(j, r[1], r[2], r[3]), r[4]), XOR(ss1, a12)), w[j + 68 + 1]),
        ADD(ADD(ADD(GG(j, r[5], r[6], r[7]), r[8]), ss1), w[j + 1]))

\* lines 174-176
RoundSS(r, w, j, a12) ==
    RoundTT(r, w, j, a12, rotl(ADD(ADD(a12, r[5]), rotl(Tj(j), j)), 7))

\* one iteration of the 64-step loop of _compress on r = r[0..7]
Round(r, w, j) == RoundSS(r, w, j, rotl(r[1], 12))

RECURSIVE Rounds(_, _, _, _)
\* the second half of a range, once the first half has produced r1
RoundsThen(r1, w, mid, hi) == IF Len(r1) > 0 THEN Rounds(r1, w, mid, hi) ELSE r1

Rounds(r, w, lo, hi) ==
    IF hi - lo = 1 THEN Round(r, w, lo)
    ELSE RoundsThen(Rounds(r, w, lo, (lo + hi) \div 2), w, (lo + hi) \div 2, hi)

\* lines 198-200: this.reg[i] = (this.reg[i] ^ r[i]) >>> 0
XorRegs(reg, r) ==
    <<XOR(reg[1], r[1]), XOR(reg[2], r[2]), XOR(reg[3], r[3]), XOR(reg[4], r[4]),
      XOR(reg[5], r[5]), XOR(reg[6], r[6]), XOR(reg[7], r[7]), XOR(reg[8], r[8])>>

\* _compress(m): the registers after compressing block m into registers reg
compress(reg, m) == XorRegs(reg, Rounds(reg, expand(m), 0, 64))

\* the registers set by reset()
IV == << <<29568, 5743>>,  <<18708, 45753>>, <<5924, 17111>>,  <<55946, 1536>>,
         <<43375, 12476>>, <<5681, 14506>>,  <<58253, 61005>>, <<45307, 3662>> >>


----------------------------------------------------------------------------
(* Values handed to the SM3 methods.  A message argument is a JavaScript   *)
(* value: a string (v its code points), a byte array, or undefined.        *)

Str(v)   == [t |-> "str", v |-> v]
Bytes(v) == [t |-> "bytes", v |-> v]
Undef    == [t |-> "undef", v |-> <<>>]

\* JavaScript truthiness, `if (msg)`: the empty string, undefined and null are
\* falsy, every array (also the empty one) and every object is truthy
Truthy(msg) == msg.t \in {"bytes", "point", "bn"} \/ (msg.t = "str" /\ Len(msg.v) > 0)

\* utils.strToBytes: the UTF-8 bytes of a string (code points below 0x800)
RECURSIVE strToBytes(_)
strToBytes(v) ==
    IF v = <<>> THEN <<>>
    ELSE (IF Head(v) < 128 THEN <<Head(v)>>
          ELSE <<192 + (Head(v) \div 64), 128 + (Head(v) % 64)>>)
         \o strToBytes(Tail(v))

\* Array.prototype.slice(a, b) on a sequence, 0-based, b exclusive and clamped
Slice(m, a, b) == SubSeq(m, a + 1, IF b < Len(m) THEN b ELSE Len(m))

Min(a, b) == IF a < b THEN a ELSE b

----------------------------------------------------------------------------
(* The SM3 engine as a value: reg, chunk and size are the fields of the    *)
(* class; log is a history field, the blocks handed to _compress since the *)
(* last reset().                                                           *)

\* the engine after the constructor
Fresh == [reg |-> IV, chunk |-> <<>>, size |-> 0, log |-> <<>>]

\* reset()
reset(e) == [reg |-> IV, chunk |-> <<>>, size |-> 0, log |-> <<>>]

\* this._compress(m)
doCompress(e, m) == [e EXCEPT !.reg = compress(e.reg, m), !.log = Append(e.log, m)]

\* write, line 59: the chunk taken from m after a block was compressed
mutNextChunk(m, i) == IF i < Len(m) THEN Slice(m, i + 1, Min(i + 65, Len(m))) ELSE <<>>

nextChunk(m, i) == IF i < Len(m) THEN Slice(m, i, Min(i + 64, Len(m))) ELSE <<>>

\* write, lines 56-64: the while loop
RECURSIVE writeLoop(_, _, _)
writeLoop(e, m, i) ==
    IF Len(e.chunk) >= 64
    THEN writeLoop([doCompress(e, e.chunk) EXCEPT !.chunk = nextChunk(m, i)], m, i + 64)
    ELSE e

\* write, lines 48-64, m the bytes of msg
writeBytes(e, m) ==
    IF Len(m) < 64 - Len(e.chunk)
    THEN [e EXCEPT !.size = @ + Len(m), !.chunk = @ \o m]
    ELSE writeLoop([e EXCEPT !.size = @ + Len(m),
                             !.chunk = @ \o Slice(m, 0, 64 - Len(e.chunk))],
                   m, 64 - Len(e.chunk))

\* write(msg)
write(e, msg) == writeBytes(e, IF msg.t = "str" THEN strToBytes(msg.v) ELSE msg.v)

\* n bytes 0x00
Zeros(n) == [k \in 1..n |-> 0]

\* _fill, lines 206-209: len after the push of 0x80, adjusted
mutFillLen(n) == IF 64 - (n % 64) <= 8 THEN (n % 64) - 64 ELSE n % 64

fillLen(n) == IF 64 - (n % 64) < 8 THEN (n % 64) - 64 ELSE n % 64

\* _fill, lines 214-220: the eight length bytes.  hi is Math.floor(l / 2^32);
\* l >>> s is taken of l mod 2^32, which is l for the lengths of this model
lenBytes(l) ==
    LET hi == (l \div H16) \div H16
        lo == l - (hi * H16) * H16
    IN  [i \in 1..4 |-> (hi \div (2 ^ ((4 - i) * 8))) % 256] \o
        [i \in 1..4 |-> (lo \div (2 ^ ((4 - i) * 8))) % 256]

\* _fill, lines 206-220, c80 the chunk after push(0x80), l the length in bits
fillChunk(c80, l) == c80 \o Zeros(56 - fillLen(Len(c80))) \o lenBytes(l)

\* _fill()
fill(e) == [e EXCEPT !.chunk = fillChunk(Append(e.chunk, 128), e.size * 8)]

\* sum, lines 84-86: compress chunk.slice(i, i + 64) for i = 0, 64, ...
RECURSIVE sumLoop(_, _)
sumLoopThen(e1, i) == IF Len(e1.log) > 0 THEN sumLoop(e1, i) ELSE e1

sumLoop(e, i) ==
    IF i < Len(e.chunk)
    THEN sumLoopThen(doCompress(e, Slice(e.chunk, i, i + 64)), i + 64)
    ELSE e

HexChars == <<"0", "1", "2", "3", "4", "5", "6", "7",
              "8", "9", "a", "b", "c", "d", "e", "f">>

\* Number.prototype.toString(16) of a 16-bit value n: no leading zeros
RECURSIVE hex16(_)
hex16(n) == IF n < 16 THEN <<HexChars[n + 1]>>
            ELSE Append(hex16(n \div 16), HexChars[(n % 16) + 1])

\* n in exactly four hex digits
hex4(n) == <<HexChars[(n \div 4096) + 1], HexChars[((n \div 256) % 16) + 1],
             HexChars[((n \div 16) % 16) + 1], HexChars[(n % 16) + 1]>>

\* this.reg[i].toString(16) for the uint32 x
toString16(x) == IF x[1] = 0 THEN hex16(x[2]) ELSE hex16(x[1]) \o hex4(x[2])

\* sum, lines 88-91: digest += this.reg[i].toString(16)
digestHex(r) ==
    toString16(r[1]) \o toString16(r[2]) \o toString16(r[3]) \o toString16(r[4]) \o
    toString16(r[5]) \o toString16(r[6]) \o toString16(r[7]) \o toString16(r[8])

\* sum, lines 95-102: the four bytes of register h, most significant first
regBytes(h) == <<h[1] \div 256, h[1] % 256, h[2] \div 256, h[2] % 256>>

\* sum, lines 93-103
digestBytes(r) ==
    regBytes(r[1]) \o regBytes(r[2]) \o regBytes(r[3]) \o regBytes(r[4]) \o
    regBytes(r[5]) \o regBytes(r[6]) \o regBytes(r[7]) \o regBytes(r[8])

\* sum, lines 87-107: the digest read from the registers of e3, then reset().
\* The record holds the engine afterwards, the value returned, and for the
\* properties the data compressed: tail is the chunk before _fill (e1), filled
\* the chunk after it (e2), total the size _fill read, blocks every block
\* compressed since the last reset, regs the registers the digest is read from
sumResult(e1, e2, e3, enc) ==
    [eng    |-> reset(e3),
     digest |-> IF enc = "hex" THEN digestHex(e3.reg) ELSE digestBytes(e3.reg),
     regs   |-> e3.reg,
     tail   |-> e1.chunk,
     total  |-> e1.size,
     filled |-> e2.chunk,
     blocks |-> e3.log]

\* sum, lines 84-86
sumCompress(e1, e2, enc) == sumResult(e1, e2, sumLoop(e2, 0), enc)

\* sum, line 83
sumFill(e1, enc) == sumCompress(e1, fill(e1), enc)

\* sum(msg, enc)
sum(e, msg, enc) == sumFill(IF Truthy(msg) THEN write(reset(e), msg) ELSE e, enc)

----------------------------------------------------------------------------
(* The SM2 curve.  The 256-bit parameters of _sm2Params do not fit TLC's   *)
(* integers, so the model runs the code over a curve of the same shape     *)
(* with a 9-bit field: y^2 = x^3 + ax + b over F_p with a = p - 3,         *)
(* p = 3 mod 4, prime order n < p and cofactor 1.  A coordinate of the     *)
(* source takes 32 bytes, here CoordBytes = 2; every 32, 64, 33, 65, 66    *)
(* and 130 of the source is written below in terms of CoordBytes.          *)

\* _sm2Params.p, a, b, n and g, scaled
sm2p == 443
sm2a == sm2p - 3
sm2b == 303
sm2n == 433
sm2g == <<285, 294>>

\* the bytes of a coordinate: 32 in the source
CoordBytes == 2

\* a point is <<x, y>>, the point at infinity is Inf; NoPoint is the null of
\* this.pub and NoPri the null of this.pri
Inf     == <<>>
NoPoint == <<-1>>
NoPri   == -1

IsInf(P) == Len(P) = 0

\* bn.js reduction context: redSqr
SqMod(x, m) == (x * x) % m

\* bn.js Red.pow: square and multiply
RECURSIVE PowMod(_, _, _)
PowMod(b, e, m) ==
    IF e = 0 THEN 1
    ELSE IF e % 2 = 0 THEN SqMod(PowMod(b, e \div 2, m), m)
    ELSE (b * PowMod(b, e - 1, m)) % m

\* bn.js redInvm: the inverse of a nonzero a modulo the prime p
InvP(a) == PowMod(a, sm2p - 2, sm2p)

\* bn.js redSqrt for p = 3 mod 4: a^((p + 1) / 4), a root of a when a is a square
SqrtP(a) == IF a = 0 THEN 0 ELSE PowMod(a, (sm2p + 1) \div 4, sm2p)

\* the point on the line of slope l through (x1, y1) and the point of abscissa x2
ChordX(x1, y1, l, x3) == <<x3, (l * (x1 - x3) - y1) % sm2p>>
Chord(x1, y1, x2, l) == ChordX(x1, y1, l, (l * l - x1 - x2) % sm2p)

\* elliptic Point.dbl
dbl(P) ==
    IF IsInf(P) THEN Inf
    ELSE IF (2 * P[2]) % sm2p = 0 THEN Inf
    ELSE Chord(P[1], P[2], P[1],
               ((3 * P[1] * P[1] + sm2a) * InvP((2 * P[2]) % sm2p)) % sm2p)

\* elliptic Point.add
add(P, Q) ==
    IF IsInf(P) THEN Q
    ELSE IF IsInf(Q) THEN P
    ELSE IF P = Q THEN dbl(P)
    ELSE IF P[1] = Q[1] THEN Inf
    ELSE Chord(P[1], P[2], Q[1],
               ((Q[2] - P[2]) * InvP((Q[1] - P[1]) % sm2p)) % sm2p)

\* elliptic Point.mul(k), the point [k]P, by doubling and adding
RECURSIVE mul(_, _)
mul(P, k) ==
    IF k = 0 \/ IsInf(P) THEN Inf
    ELSE IF k % 2 = 0 THEN dbl(mul(P, k \div 2))
    ELSE add(mul(P, k - 1), P)

\* x^3 + ax + b for a reduced x
Rhs(px) == (((px * px) % sm2p) * px + sm2a * px + sm2b) % sm2p

\* elliptic curve.validate(point): y^2 = x^3 + ax + b
OnCurve(P) == IsInf(P) \/ (P[2] * P[2]) % sm2p = Rhs(P[1])

----------------------------------------------------------------------------
(* bn.js conversions.  A hex string is the sequence of its character       *)
(* codes, a byte array the sequence of its bytes.                          *)

\* the character of hex digit d, lowercase
HexCode(d) == IF d < 10 THEN 48 + d ELSE 87 + d

\* the value of the hex character c ('0'-'9', 'a'-'f', 'A'-'F')
HexVal(c) == IF c >= 97 THEN c - 87 ELSE IF c >= 65 THEN c - 55 ELSE c - 48

\* BN.toString(16): no leading zeros, "0" for zero
RECURSIVE bnToString(_)
bnToString(v) ==
    IF v < 16 THEN <<HexCode(v)>>
    ELSE Append(bnToString(v \div 16), HexCode(v % 16))

\* '0' prepended while out.length % padding !== 0
padTo(out, padding) ==
    [k \in 1..((padding - (Len(out) % padding)) % padding) |-> 48] \o out

\* BN.toString(16, padding)
bnToStringPad(v, padding) == padTo(bnToString(v), padding)

\* new BN(s, 16) for a hex string s
RECURSIVE bnFromString(_)
bnFromString(s) ==
    IF Len(s) = 0 THEN 0
    ELSE 16 * bnFromString(SubSeq(s, 1, Len(s) - 1)) + HexVal(s[Len(s)])

\* new BN(s) for a string s: base 10, with the digit values of bn.js parseBase
RECURSIVE bnFromString10(_)
bnFromString10(s) ==
    IF Len(s) = 0 THEN 0
    ELSE 10 * bnFromString10(SubSeq(s, 1, Len(s) - 1)) + HexVal(s[Len(s)])

\* BN.toArray(): big-endian, the fewest bytes, [0] for zero
RECURSIVE bnToArray(_)
bnToArray(v) ==
    IF v < 256 THEN <<v>>
    ELSE Append(bnToArray(v \div 256), v % 256)

\* BN.toArray('be', len): big-endian, exactly len bytes
bnToArrayLen(v, len) == [k \in 1..(len - Len(bnToArray(v))) |-> 0] \o bnToArray(v)

\* new BN(b, 16) for a byte array b: big-endian
RECURSIVE bnFromArray(_)
bnFromArray(b) ==
    IF Len(b) = 0 THEN 0
    ELSE 256 * bnFromArray(SubSeq(b, 1, Len(b) - 1)) + b[Len(b)]

----------------------------------------------------------------------------
(* SM2Curve and SM2KeyPair.  An argument of the constructor is a           *)
(* JavaScript value: null, a hex string, a byte array, a Point of the      *)
(* library or a BN of the library.  A call returns a record whose err is   *)
(* the message of the Error thrown, "" when none was.                      *)

Null     == [t |-> "null", v |-> <<>>]
Point(P) == [t |-> "point", v |-> P]
BNum(d)  == [t |-> "bn", v |-> <<d>>]

\* the hex digits of a coordinate: 64 in the source
HexLen == 2 * CoordBytes

\* y === null
NoY == -1

PointOk(P)    == [err |-> "", pt |-> P]
PointErr(msg) == [err |-> msg, pt |-> NoPoint]

\* _sm2Point, lines 74-80; py is the root redSqrt returned
sm2PointRoot(px, py, parity) ==
    PointOk(<<px, IF (parity = "odd") # (py % 2 = 1) THEN (sm2p - py) % sm2p ELSE py>>)

\* _sm2Point(x, y, parity) for the numbers x and y that new BN(., 16) reads
\* from the arguments, y = NoY for null; toRed reduces them modulo p.  The
\* arguments of the callers are never empty, so line 63 does not apply.
sm2Point(x, y, parity) ==
    IF y # NoY
    THEN IF OnCurve(<<x % sm2p, y % sm2p>>) THEN PointOk(<<x % sm2p, y % sm2p>>)
         ELSE PointErr("point is not on curve")
    ELSE sm2PointRoot(x % sm2p, SqrtP(Rhs(x % sm2p)), parity)

\* _pubFromString(s)
pubFromString(s) ==
    IF Len(s) < 2 + HexLen THEN PointErr("invalid key string")
    ELSE IF Slice(s, 0, 2) = <<48, 48>> THEN PointErr("public key should not be infinity")
    ELSE IF Slice(s, 0, 2) = <<48, 50>>
         THEN sm2Point(bnFromString(Slice(s, 2, 2 + HexLen)), NoY, "even")
    ELSE IF Slice(s, 0, 2) = <<48, 51>>
         THEN sm2Point(bnFromString(Slice(s, 2, 2 + HexLen)), NoY, "odd")
    ELSE IF Slice(s, 0, 2) \in {<<48, 52>>, <<48, 54>>, <<48, 55>>}
         THEN IF Len(s) < 2 + 2 * HexLen THEN PointErr("invalid key string")
              ELSE sm2Point(bnFromString(Slice(s, 2, 2 + HexLen)),
                            bnFromString(Slice(s, 2 + HexLen, 2 + 2 * HexLen)), "even")
    ELSE PointErr("invalid key string")

\* _pubFromBytes(b)
pubFromBytes(b) ==
    IF Len(b) < 1 + CoordBytes THEN PointErr("unrecognized key")
    ELSE IF b[1] = 0 THEN PointErr("public key should not be infinity")
    ELSE IF b[1] = 2
         THEN sm2Point(bnFromArray(Slice(b, 1, 1 + CoordBytes)), NoY, "even")
    ELSE IF b[1] = 3
         THEN sm2Point(bnFromArray(Slice(b, 1, 1 + CoordBytes)), NoY, "odd")
    ELSE IF b[1] \in {4, 6, 7}
         THEN IF Len(b) < 1 + 2 * CoordBytes THEN PointErr("unrecognized key")
              ELSE sm2Point(bnFromArray(Slice(b, 1, 1 + CoordBytes)),
                            bnFromArray(Slice(b, 1 + CoordBytes, 1 + 2 * CoordBytes)), "even")
    ELSE PointErr("unrecognized key")

\* validate() on the fields pub and pri
validate(pub, pri) ==
    /\ pub # NoPoint => /\ ~IsInf(pub)
                        /\ OnCurve(pub)
                        /\ IsInf(mul(pub, sm2n))
    /\ pri # NoPri => /\ pri <= sm2n - 2
                      /\ pub # NoPoint => pub = mul(sm2g, pri)

KeyErr(msg) == [err |-> msg, pub |-> NoPoint, pri |-> NoPri]

\* no key pair object
NoKey == KeyErr("none")

\* constructor, lines 136-138
newCheck(pub, pri, validPub, validPri) ==
    IF ~(validPub /\ validPri) /\ ~validate(pub, pri) THEN KeyErr("invalid key")
    ELSE [err |-> "", pub |-> pub, pri |-> pri]

\* constructor, lines 131-133
newDerive(pub, pri, validPub, validPri) ==
    newCheck(IF pub = NoPoint THEN mul(sm2g, pri) ELSE pub, pri, validPub, validPri)

\* constructor, lines 120-134
newPri(pub, validPub, pri) ==
    IF ~Truthy(pri) THEN newCheck(pub, NoPri, validPub, FALSE)
    ELSE IF pri.t = "str" THEN newDerive(pub, bnFromString(pri.v), validPub, FALSE)
    ELSE IF pri.t = "bn" THEN newDerive(pub, pri.v[1], validPub, TRUE)
    ELSE KeyErr("invalid private key")

\* constructor, after this.pub was read from a string or a byte array
newParsed(r, pri) == IF r.err # "" THEN KeyErr(r.err) ELSE newPri(r.pt, FALSE, pri)

\* new SM2KeyPair(pub, pri)
SM2KeyPair(pub, pri) ==
    IF ~Truthy(pub) THEN newPri(NoPoint, FALSE, pri)
    ELSE IF pub.t = "str" THEN newParsed(pubFromString(pub.v), pri)
    ELSE IF pub.t = "bytes" THEN newParsed(pubFromBytes(pub.v), pri)
    ELSE IF pub.t = "point" /\ ~IsInf(pub.v) THEN newPri(pub.v, TRUE, pri)
    ELSE KeyErr("invalid public key")

\* pubToString, lines 151-155 and 158-162: '02' or '06' for an even Y
parityCode(y, even) == <<48, IF y % 2 = 0 THEN even ELSE even + 1>>

\* pubToString(mode)
pubToString(pub, mode) ==
    IF mode = "compress"
    THEN parityCode(pub[2], 50) \o bnToStringPad(pub[1], CoordBytes)
    ELSE (IF mode = "mix" THEN parityCode(pub[2], 54) ELSE <<48, 52>>)
         \o bnToStringPad(pub[1], CoordBytes) \o bnToStringPad(pub[2], CoordBytes)

\* pubToBytes(mode)
pubToBytes(pub, mode) ==
    IF mode = "compress"
    THEN <<IF pub[2] % 2 = 0 THEN 2 ELSE 3>> \o bnToArrayLen(pub[1], CoordBytes)
    ELSE <<IF mode = "mix" THEN (IF pub[2] % 2 = 0 THEN 6 ELSE 7) ELSE 4>>
         \o bnToArrayLen(pub[1], CoordBytes) \o bnToArrayLen(pub[2], CoordBytes)

\* _combine, line 420
Preamble == <<0, 128, 49, 50, 51, 52, 53, 54, 55, 56, 49, 50, 51, 52, 53, 54, 55, 56>>

\* _combine, lines 420-426: the bytes hashed to Z_A
zaInput(pub) ==
    Preamble \o bnToArray(sm2a) \o bnToArray(sm2b)
             \o bnToArray(sm2g[1]) \o bnToArray(sm2g[2])
             \o bnToArray(pub[1]) \o bnToArray(pub[2])

\* new sm3().sum(bytes)
sm3Sum(bytes) == sum(Fresh, Bytes(bytes), "none").digest

\* _combine(msg)
combine(pub, msg) ==
    sm3Sum(zaInput(pub)) \o (IF msg.t = "str" THEN strToBytes(msg.v) ELSE msg.v)

\* utils.hashToBN(digest): the big-endian integer of the digest.  Lines 365
\* and 415 use it in .add(x).umod(this.curve.n) only, and the model keeps
\* its residue modulo n.
RECURSIVE hashToBN(_)
hashToBN(digest) ==
    IF Len(digest) = 0 THEN 0
    ELSE (256 * hashToBN(SubSeq(digest, 1, Len(digest) - 1)) + digest[Len(digest)]) % sm2n

\* BN.invm(n) for the prime n; bn.js egcd gives 0 for a multiple of n
InvN(a) == IF a % sm2n = 0 THEN 0 ELSE PowMod(a % sm2n, sm2n - 2, sm2n)

\* _drbg.generate(32, 'hex', ...): the hex string of the bytes drawn, v their
\* big-endian value
drbgHex(v) == bnToStringPad(v, 2 * CoordBytes)

\* signDigest, lines 367-373: the iteration is abandoned for this r
mutRetryR(r, k) == r = 0

retryR(r, k) == r = 0 \/ r + k = sm2n

\* what one iteration of the loop of signDigest did: out is "retry" for
\* continue, "return" for break, "throw" when kg.getX() threw; k, r and s
\* are its values, -1 for a value it did not compute
Iter(out, k, r, s) == [out |-> out, k |-> k, r |-> r, s |-> s]

NoIter == Iter("none", -1, -1, -1)

\* signDigest, lines 378-382
iterS(k, r, s) == IF s # 0 THEN Iter("return", k, r, s) ELSE Iter("retry", k, r, s)

\* signDigest, lines 367-377; new BN(1).add(null) throws
iterR(pri, k, r) ==
    IF retryR(r, k) THEN Iter("retry", k, r, -1)
    ELSE IF pri = NoPri THEN Iter("throw", k, r, -1)
    ELSE iterS(k, r, (InvN(1 + pri) * ((k - r * pri) % sm2n)) % sm2n)

\* signDigest, lines 364-365: getX() of the point at infinity throws
iterKG(pri, e, k, kg) ==
    IF IsInf(kg) THEN Iter("throw", k, -1, -1)
    ELSE iterR(pri, k, (e + kg[1]) % sm2n)

\* signDigest, lines 363-382: one iteration, v the value the DRBG draws
signIter(pri, digest, v) ==
    iterKG(pri, hashToBN(digest), bnFromString(drbgHex(v)) % sm2n,
           mul(sm2g, bnFromString(drbgHex(v)) % sm2n))

\* signDigest, lines 379-380: the signature returned
signature(it) == [r |-> bnToString(it.r), s |-> bnToString(it.s)]

\* verifyDigest, lines 414-416: "throw" when q.getX() threw
verifyQ(e, bnr, q) ==
    IF IsInf(q) THEN "throw"
    ELSE IF (e + q[1]) % sm2n = bnr THEN "true" ELSE "false"

\* verifyDigest, lines 409-414
verifyT(pub, e, bnr, bns, t) ==
    IF t = 0 THEN "false"
    ELSE IF pub = NoPoint THEN "throw"
    ELSE verifyQ(e, bnr, add(mul(sm2g, bns), mul(pub, t)))

\* verifyDigest, lines 399-409
verifyRS(pub, digest, bnr, bns) ==
    IF bnr >= sm2n THEN "false"
    ELSE IF bns >= sm2n THEN "false"
    ELSE verifyT(pub, hashToBN(digest), bnr, bns, (bnr + bns) % sm2n)

\* verifyDigest(digest, r, s): "true", "false" or "throw"
verifyDigest(pub, digest, r, s) == verifyRS(pub, digest, bnFromString(r), bnFromString(s))

\* verify(msg, r, s)
verify(pub, msg, r, s) ==
    IF pub = NoPoint THEN "throw"
    ELSE verifyDigest(pub, sm3Sum(combine(pub, msg)), r, s)

----------------------------------------------------------------------------
(* The SM3 state machine: one engine and its caller.                       *)

VARIABLES
    h,        \* the SM3 object: its fields reg (eight uint32), chunk and size,
              \* and the history field log
    written,  \* history: the bytes written since the last reset
    crossed,  \* history: some write since the last reset completed a block
              \* begun by an earlier write
    pc,       \* "idle", or "returned" when sum has just returned
    last,     \* the call that has just returned, [op |-> "none"] when idle
    kp,       \* the SM2KeyPair object: its fields pub and pri
    call      \* the call on SM2KeyPair in progress or just returned

sm3vars == <<h, written, crossed, pc, last>>
sm2vars == <<kp, call>>
vars == <<h, written, crossed, pc, last, kp, call>>

NoCall == [op |-> "none"]

\* the lengths of the parts written
PartLens == {0, 1, 2, 55, 56, 63, 64, 65, 128}

\* the byte at position p (from 0) of the stream written by the caller
Data(p) == 97 + (p % 26)

\* the n bytes of the stream from position p
Part(p, n) == [k \in 1..n |-> Data(p + k - 1)]

\* the message arguments given to sum
SumArgs == {Undef, Str(<<>>), Bytes(<<>>), Str(<<97, 233>>), Bytes(<<97>>)}

Encs == {"hex", "none"}

InitSM3 ==
    /\ h = Fresh
    /\ written = <<>>
    /\ crossed = FALSE
    /\ pc = "idle"
    /\ last = NoCall
    /\ kp = NoKey
    /\ call = NoCall

\* h.write(msg) with the next n bytes of the stream, as an array or a string
Write(n, t) ==
    /\ pc = "idle"
    /\ Len(written) + n <= MaxTotal
    /\ h' = write(h, [t |-> t, v |-> Part(Len(written), n)])
    /\ written' = written \o Part(Len(written), n)
    /\ crossed' = (crossed \/ (Len(h.chunk) > 0 /\ Len(h.chunk) + n >= 64))
    /\ UNCHANGED <<pc, last, sm2vars>>

\* h.reset()
Reset ==
    /\ pc = "idle"
    /\ h' = reset(h)
    /\ written' = <<>>
    /\ crossed' = FALSE
    /\ UNCHANGED <<pc, last, sm2vars>>

\* h.sum(msg, enc).  last.r is what sum computed (see sumResult); stream,
\* parts and pre are the history and the engine as they were before the call.
Sum(msg, enc) ==
    /\ pc = "idle"
    /\ last' = [op |-> "sum", msg |-> msg, enc |-> enc, r |-> sum(h, msg, enc),
                stream |-> written, parts |-> crossed, pre |-> h]
    /\ h' = last'.r.eng
    /\ written' = <<>>
    /\ crossed' = FALSE
    /\ pc' = "returned"
    /\ UNCHANGED sm2vars

\* the caller takes the value returned
Return ==
    /\ pc = "returned"
    /\ pc' = "idle"
    /\ last' = NoCall
    /\ UNCHANGED <<h, written, crossed, sm2vars>>

NextSM3 ==
    \/ \E n \in PartLens : Write(n, "bytes")
    \/ \E n \in {0, 1, 2} : Write(n, "str")
    \/ Reset
    \/ \E msg \in SumArgs, enc \in Encs : Sum(msg, enc)
    \/ Return

SpecSM3 == InitSM3 /\ [][NextSM3]_vars

----------------------------------------------------------------------------
(* The SM2 state machines: a caller that constructs one SM2KeyPair object  *)
(* kp and calls its methods.  call is the call in progress or the call     *)
(* that has just returned.                                                 *)

Modes == {"compress", "nocompress", "mix"}

\* two lowercase hex characters per byte
RECURSIVE BytesToHex(_)
BytesToHex(b) ==
    IF Len(b) = 0 THEN <<>>
    ELSE <<HexCode(Head(b) \div 16), HexCode(Head(b) % 16)>> \o BytesToHex(Tail(b))

\* the points given to the constructor as public keys: G, [2]G, and [4]G
\* whose X is below 0x10
KeyPoints == {sm2g, mul(sm2g, 2), mul(sm2g, 4)}

\* a pair of coordinates that is not on the curve
OffCurve == <<1, 1>>

\* the public key arguments: null, the empty string, a string too short, the
\* standard encodings of the points as strings and as byte arrays, Point
\* objects, an encoding of a pair not on the curve, and a BN
KeyPubArgs ==
    {Null, Str(<<>>), Str(<<48, 52, 48, 49>>), Bytes(<<4, 0, 1, 0, 1>>), BNum(1)}
    \cup {Str(BytesToHex(pubToBytes(P, m))) : P \in KeyPoints, m \in Modes}
    \cup {Bytes(pubToBytes(P, m)) : P \in KeyPoints, m \in Modes}
    \cup {Point(P) : P \in KeyPoints \cup {OffCurve, Inf}}

\* the private keys given together with a public key
KeyPris == {0, 1, 2, 3, sm2n - 2, sm2n - 1}

\* the private key arguments: null, a byte array, hex strings and BN objects
KeyPriArgs ==
    {Null, Bytes(<<1>>)}
    \cup {Str(bnToString(d)) : d \in KeyPris} \cup {BNum(d) : d \in KeyPris}

\* the arguments of the constructor in SpecKey
KeyArgs ==
    (KeyPubArgs \X KeyPriArgs) \cup {<<Null, BNum(d)>> : d \in 0..MaxPri}

\* the arguments of the constructor in SpecSig
SigKeyArgs ==
    {<<Null, Str(bnToString(d))>> : d \in 1..MaxSigPri}
    \cup {<<Point(sm2g), BNum(2)>>, <<Point(mul(sm2g, 2)), BNum(2)>>,
          <<Bytes(pubToBytes(mul(sm2g, 3), "compress")), Null>>, <<Null, Null>>}

\* the messages signed
Msgs == {Str(<<97>>), Bytes(<<>>)}

\* the digests given to signDigest and verifyDigest: CoordBytes bytes
Digests == {bnToArrayLen(e, CoordBytes) : e \in 0..MaxDigest}

\* the values the DRBG draws
DrbgOut == (0..MaxDrbg) \cup {sm2n - 1, sm2n, sm2n + 1}

\* the hex strings given to verifyDigest as r and as s
RArgs == {bnToString(r) : r \in (0..MaxR) \cup {sm2n - 1, sm2n, sm2n + 1}}
SArgs == {bnToString(s) : s \in (0..MaxS) \cup {sm2n - 1, sm2n, sm2n + 1}}

InitSM2 ==
    /\ h = Fresh
    /\ written = <<>>
    /\ crossed = FALSE
    /\ pc = "idle"
    /\ last = NoCall
    /\ kp = NoKey
    /\ call = NoCall

Idle == call.op = "none"

\* kp = new SM2KeyPair(pub, pri); there is no object when it throws
Construct(pub, pri) ==
    /\ Idle /\ kp = NoKey
    /\ call' = [op |-> "new", pub |-> pub, pri |-> pri, r |-> SM2KeyPair(pub, pri)]
    /\ kp' = IF call'.r.err = "" THEN call'.r ELSE NoKey
    /\ UNCHANGED sm3vars

\* kp = genKeyPair(), v the value the DRBG draws in the last iteration of the
\* loop of lines 463-465 (a draw above the limit repeats the loop)
GenKeyPair(v) ==
    /\ Idle /\ kp = NoKey
    /\ bnFromString10(drbgHex(v)) <= sm2n - 2
    /\ call' = [op |-> "new", pub |-> Null, pri |-> BNum(bnFromString10(drbgHex(v))),
                r |-> SM2KeyPair(Null, BNum(bnFromString10(drbgHex(v))))]
    /\ kp' = IF call'.r.err = "" THEN call'.r ELSE NoKey
    /\ UNCHANGED sm3vars

HasKey == kp.err = ""
HasPub == HasKey /\ kp.pub # NoPoint

\* new SM2KeyPair(kp.pubToString(mode), null) for form "str",
\* new SM2KeyPair(kp.pubToBytes(mode), null) for form "bytes"
RoundTrip(mode, form) ==
    /\ Idle /\ HasPub
    /\ call' = [op |-> "roundtrip", mode |-> mode, form |-> form,
                r |-> SM2KeyPair(IF form = "str" THEN Str(pubToString(kp.pub, mode))
                                 ELSE Bytes(pubToBytes(kp.pub, mode)), Null)]
    /\ UNCHANGED <<kp, sm3vars>>

\* kp._combine(msg); za is the byte string hashed to Z_A
Combine(msg) ==
    /\ Idle /\ HasPub
    /\ call' = [op |-> "combine", msg |-> msg, za |-> zaInput(kp.pub),
                r |-> combine(kp.pub, msg)]
    /\ UNCHANGED <<kp, sm3vars>>

\* kp.sign(msg) up to the loop of signDigest
Sign(msg) ==
    /\ Idle /\ HasKey
    /\ call' = IF kp.pri = NoPri THEN [op |-> "threw"]
               ELSE [op |-> "signing", api |-> "sign", msg |-> msg,
                     digest |-> sm3Sum(combine(kp.pub, msg)), it |-> NoIter, skip |-> NoIter]
    /\ UNCHANGED <<kp, sm3vars>>

\* kp.signDigest(digest) up to the loop
SignDigest(digest) ==
    /\ Idle /\ HasKey /\ kp.pri # NoPri
    /\ call' = [op |-> "signing", api |-> "signDigest", msg |-> Bytes(<<>>),
                digest |-> digest, it |-> NoIter, skip |-> NoIter]
    /\ UNCHANGED <<kp, sm3vars>>

\* the call after the iteration it: the loop goes on, signDigest returns, or
\* throws; skip is the last iteration abandoned
afterIter(c, it) ==
    [c EXCEPT !.it = it,
              !.skip = IF it.out = "retry" THEN it ELSE @,
              !.op = IF it.out = "retry" THEN "signing"
                     ELSE IF it.out = "return" THEN "signed" ELSE "threw"]

\* one iteration of the loop of signDigest, v the value the DRBG draws
SignIter(v) ==
    /\ call.op = "signing"
    /\ call' = afterIter(call, signIter(kp.pri, call.digest, v))
    /\ UNCHANGED <<kp, sm3vars>>

\* the caller verifies the signature returned: kp.verify(msg, r, s) after
\* sign(msg), kp.verifyDigest(digest, r, s) after signDigest(digest)
VerifySigned ==
    /\ call.op = "signed"
    /\ call' = [op |-> "verified", api |-> call.api, it |-> call.it,
                ret |-> IF call.api = "sign"
                        THEN verify(kp.pub, call.msg, signature(call.it).r, signature(call.it).s)
                        ELSE verifyDigest(kp.pub, call.digest,
                                          signature(call.it).r, signature(call.it).s)]
    /\ UNCHANGED <<kp, sm3vars>>

\* kp.verifyDigest(digest, r, s)
VerifyDigest(digest, r, s) ==
    /\ Idle /\ HasPub
    /\ call' = [op |-> "verifyDigest", digest |-> digest, r |-> r, s |-> s,
                ret |-> verifyDigest(kp.pub, digest, r, s)]
    /\ UNCHANGED <<kp, sm3vars>>

\* the caller takes the value returned, or catches the Error
Done ==
    /\ call.op \in {"new", "roundtrip", "combine", "verified", "verifyDigest", "threw"}
    /\ call' = NoCall
    /\ UNCHANGED <<kp, sm3vars>>

NextKey ==
    \/ \E a \in KeyArgs : Construct(a[1], a[2])
    \/ \E m \in Modes, f \in {"str", "bytes"} : RoundTrip(m, f)
    \/ \E msg \in Msgs : Combine(msg)
    \/ Done

SpecKey == InitSM2 /\ [][NextKey]_vars

NextSig ==
    \/ \E a \in SigKeyArgs : Construct(a[1], a[2])
    \/ \E v \in 0..MaxGenDrbg : GenKeyPair(v)
    \/ \E msg \in Msgs : Sign(msg)
    \/ \E d \in Digests : SignDigest(d)
    \/ \E v \in DrbgOut : SignIter(v)
    \/ VerifySigned
    \/ \E d \in Digests, r \in RArgs, s \in SArgs : VerifyDigest(d, r, s)
    \/ Done

SpecSig == InitSM2 /\ [][NextSig]_vars

----------------------------------------------------------------------------
(* Properties of the SM3 engine                                            *)

\* sum has just returned
Returned == pc = "returned" /\ last.op = "sum"

\* the bytes of a message argument
BytesOf(msg) == IF msg.t = "str" THEN strToBytes(msg.v) ELSE msg.v

\* both hashes compressed the same blocks and returned the same digest
SameHash(a, b) == a.blocks = b.blocks /\ a.digest = b.digest

\* C1: a stream written in parts to a fresh engine and summed with sum()
\* compresses the same blocks, and returns the same digest, as one sum(msg) of
\* the whole stream on a fresh engine.
C1_StreamingEqualsOneShot ==
    (Returned /\ last.msg = Undef) =>
        SameHash(last.r, sum(Fresh, Bytes(last.stream), last.enc))

\* a stream longer than a block, written in parts one of which completed a
\* block begun by an earlier part, has been summed
C1_Witness ==
    /\ Returned /\ last.msg = Undef
    /\ last.parts
    /\ Len(last.stream) > 64
    /\ Len(last.r.blocks) >= 2

\* C2: sum(msg) returns what reset(); write(msg); sum() returns from the same
\* state, whatever was written before.
C2_SumMsgIsResetWriteSum ==
    (Returned /\ last.msg # Undef) =>
        last.r.digest = sum(write(reset(last.pre), last.msg), Undef, last.enc).digest

\* two lowercase hex digits per byte
RECURSIVE HexOfBytes(_)
HexOfBytes(b) ==
    IF b = <<>> THEN <<>>
    ELSE <<HexChars[(Head(b) \div 16) + 1], HexChars[(Head(b) % 16) + 1]>>
         \o HexOfBytes(Tail(b))

\* C8: sum(msg, 'hex') is the 64-character lowercase hex rendering of the 32
\* bytes sum(msg) returns.
C8_HexIsRenderingOfBytes ==
    (Returned /\ last.enc = "hex") =>
        /\ Len(last.r.digest) = 64
        /\ last.r.digest = HexOfBytes(digestBytes(last.r.regs))

\* the data the returned sum hashed: its message argument when that was
\* hashed, else the stream written before
Hashed == IF Truthy(last.msg) THEN BytesOf(last.msg) ELSE last.stream

\* the 64-bit big-endian encoding of v < 2^31
BigEndian64(v) ==
    <<0, 0, 0, 0, v \div 16777216, (v \div 65536) % 256, (v \div 256) % 256, v % 256>>

\* the padding of a message of L bytes: 0x80, the fewest zeros that bring the
\* length to 56 mod 64, the length in bits
Padding(L) == <<128>> \o Zeros((64 + 55 - (L % 64)) % 64) \o BigEndian64(8 * L)

RECURSIVE Flatten(_)
Flatten(bs) == IF bs = <<>> THEN <<>> ELSE Head(bs) \o Flatten(Tail(bs))

\* C10: after the full blocks already compressed, sum compresses the tail, one
\* byte 0x80, the fewest 0x00 bytes that make the length 56 mod 64 and 8*L as a
\* 64-bit big-endian integer; that data is a positive multiple of 64 bytes long
\* and every block compressed has exactly 64 bytes.
C10_Padding ==
    Returned =>
        /\ last.r.total = Len(Hashed)
        /\ last.r.tail = SubSeq(Hashed, 64 * (Len(Hashed) \div 64) + 1, Len(Hashed))
        /\ last.r.filled = last.r.tail \o Padding(Len(Hashed))
        /\ Len(last.r.filled) > 0 /\ Len(last.r.filled) % 64 = 0
        /\ \A k \in 1..Len(last.r.blocks) : Len(last.r.blocks[k]) = 64
        /\ Flatten(last.r.blocks) = Hashed \o Padding(Len(Hashed))

\* a sum of 119 bytes: the tail of 55 bytes is padded within its block
C10_Witness ==
    /\ Returned
    /\ Len(Hashed) = 119
    /\ Len(last.r.filled) = 64
    /\ Len(last.r.blocks) = 2

----------------------------------------------------------------------------
(* Properties of SM2KeyPair                                                *)

\* a point of the curve other than the point at infinity
ValidPoint(P) == P # NoPoint /\ ~IsInf(P) /\ OnCurve(P)

\* the argument is given: not null and not the empty string
Given(arg) == arg.t # "null" /\ Truthy(arg)

\* the key pair has both fields and pub = [pri]G
WellFormed(k) == k.err = "" /\ k.pri # NoPri /\ k.pub = mul(sm2g, k.pri)

\* C3: when sign(m) returned a signature (r, s) on a key pair that passed
\* construction, verify(m, r, s) on that key pair returns true.
C3_SignVerifyRoundTrip ==
    (call.op = "verified" /\ call.api = "sign") => call.ret = "true"

\* the round trip on the key pairs with pub = [pri]G, for sign and signDigest
RoundTripOnWellFormedKeys ==
    (call.op = "verified" /\ WellFormed(kp)) => call.ret = "true"

\* C4: verifyDigest(e, r, s) returns false whenever r or s is outside
\* [1, n-1], whatever e is.
C4_VerifyDigestRejectsOutOfRange ==
    (call.op = "verifyDigest"
        /\ (bnFromString(call.r) \notin 1..(sm2n - 1)
                \/ bnFromString(call.s) \notin 1..(sm2n - 1)))
    => call.ret = "false"

\* C5: a call SM2KeyPair(pub, pri) with both arguments given succeeds only if
\* pub = [pri]G, so every key pair object with both fields has pub = [pri]G.
C5_BothGivenOnlyIfPubIsPriG ==
    /\ (call.op = "new" /\ Given(call.pub) /\ Given(call.pri) /\ call.r.err = "")
           => call.r.pub = mul(sm2g, call.r.pri)
    /\ (kp.err = "" /\ kp.pub # NoPoint /\ kp.pri # NoPri)
           => kp.pub = mul(sm2g, kp.pri)

\* C6: for a valid point P and each mode, the key pair constructed from
\* pubToString(mode) of P, and from pubToBytes(mode) of P, exists and has the
\* public key P.
C6_PubEncodingRoundTrip ==
    (call.op = "roundtrip" /\ ValidPoint(kp.pub))
    => (call.r.err = "" /\ call.r.pub = kp.pub)

\* v as exactly CoordBytes big-endian bytes
FixedBytes(v) == [i \in 1..CoordBytes |-> (v \div (256 ^ (CoordBytes - i))) % 256]

\* C7: the bytes _combine hashes to Z_A are the 18-byte preamble and a, b, Gx,
\* Gy, pubX, pubY, each as exactly CoordBytes big-endian bytes (32 in the
\* source, 210 bytes in total), also when a coordinate has leading zero bytes.
C7_ZaInputIsFixedWidth ==
    (call.op = "combine" /\ ValidPoint(kp.pub))
    => /\ Len(call.za) = 18 + 6 * CoordBytes
       /\ call.za = Preamble \o FixedBytes(sm2a) \o FixedBytes(sm2b)
                       \o FixedBytes(sm2g[1]) \o FixedBytes(sm2g[2])
                       \o FixedBytes(kp.pub[1]) \o FixedBytes(kp.pub[2])

\* r and s of the SM2 signature for digest value e, private key d and nonce k
SigR(e, k) == (e + mul(sm2g, k)[1]) % sm2n
SigS(d, k, r) == CHOOSE s \in 0..(sm2n - 1) : (s * (1 + d)) % sm2n = (k - r * d) % sm2n

\* an iteration with these k, r and s must be abandoned
MustRetry(it) == it.r = 0 \/ it.r + it.k = sm2n \/ it.s = 0

\* C9: a signature (r, s) returned by signDigest has 1 <= r <= n-1,
\* 1 <= s <= n-1 and r + k # n for the nonce k that produced it; an iteration
\* with r = 0, r + k = n or s = 0 does not return: the loop goes on with a
\* fresh draw of the nonce.
C9_SignatureBoundsAndRetry ==
    /\ call.op \in {"signed", "verified"} =>
           /\ call.it.out = "return"
           /\ call.it.r \in 1..(sm2n - 1)
           /\ call.it.s \in 1..(sm2n - 1)
           /\ call.it.r + call.it.k # sm2n
    /\ (call.op \in {"signing", "signed"} /\ call.it.out \in {"retry", "return"}) =>
           /\ call.it.r = SigR(hashToBN(call.digest), call.it.k)
           /\ MustRetry([call.it EXCEPT !.s = SigS(kp.pri, call.it.k, call.it.r)])
                  <=> (call.op = "signing" /\ call.it.out = "retry")

\* a signature was returned after an iteration with r + k = n was abandoned
C9_Witness ==
    /\ call.op = "signed"
    /\ call.skip.out = "retry"
    /\ call.skip.r + call.skip.k = sm2n

\* the loop of signDigest has run an iteration; call.it.k is the nonce k with
\* which it computed [k]G
Iterated ==
    /\ call.op \in {"signing", "signed", "threw"}
    /\ "it" \in DOMAIN call
    /\ call.it.out # "none"

\* C11: in every iteration of the loop of signDigest, whatever value the DRBG
\* draws, the nonce k with which [k]G is computed lies in [1, n-1]; k = 0 is
\* never used.
C11_NonceInRange == Iterated => call.it.k \in 1..(sm2n - 1)

====
